---- MODULE Spec2Model ----
(***************************************************************************)
(* Plugin registry and lifecycle of aiidalab_alc.plugins:                  *)
(*   PluginData          (constructor, _is_plugin_loaded, install,         *)
(*                        uninstall)                                       *)
(*   PluginBoxWidget     (constructor, render, _install_plugin,            *)
(*                        _remove_plugin, _update_buttons)                 *)
(*   PluginManager       (constructor, _get_plugin_list)                   *)
(*                                                                         *)
(* Python str values are sequences of one-character strings, so that       *)
(* str.replace and str.startswith are computed and not assumed.  The text  *)
(* captured from a subprocess is opaque and is a TLA+ string.              *)
(***************************************************************************)
EXTENDS Integers, Sequences, FiniteSets, TLC

VARIABLES config, env, pc, result, plugins, widgets, last

vars == <<config, env, pc, result, plugins, widgets, last>>

(***************************************************************************)
(* Bounds of the model.                                                    *)
(***************************************************************************)
\* largest number of entries of a configuration mapping given to
\* _get_plugin_list on its own
MaxEntries == 2
\* largest number of plugins of a PluginManager session
MaxPlugins == 2
\* largest number of items of a top-level YAML list
MaxItems == 1

(***************************************************************************)
(* Python values read from the YAML document.                              *)
(***************************************************************************)
NoneVal == [t |-> "none", s |-> <<>>]
StrVal(s) == [t |-> "str", s |-> s]
DictVal(d) == [t |-> "dict", d |-> d]

S_empty == <<>>
S_a_b_c == <<"a", "-", "b", "-", "c">>
S_a_b_c_us == <<"a", "_", "b", "_", "c">>
S_m == <<"m">>
S_rel == <<".", "m">>
S_descr == <<"d">>

\* plugin names: the keys of the configuration mapping
Names == {"foo", "bar", "baz"}
\* the modules the environment may hold, and what importing one does:
\*   absent  the import raises ImportError (no such module, or a module
\*           that fails with ImportError itself)
\*   ok      the import succeeds
\*   broken  the module is there and its import raises something that is
\*           not an ImportError (a SyntaxError, say)
Modules == {S_a_b_c_us, S_m}
Statuses == {"absent", "ok", "broken"}
Envs == [Modules -> Statuses]

Fields == {"package", "import", "description"}
PackageVals == {StrVal(S_empty), StrVal(S_a_b_c)}
ImportVals == {NoneVal, StrVal(S_empty), StrVal(S_m), StrVal(S_rel)}
DescriptionVals == {StrVal(S_descr)}
FieldVals(f) ==
    IF f = "package" THEN PackageVals
    ELSE IF f = "import" THEN ImportVals
    ELSE DescriptionVals

\* the records of one entry: any subset of the three fields
RawRecords ==
    UNION { { r \in [D -> PackageVals \cup ImportVals \cup DescriptionVals] :
                \A f \in D : r[f] \in FieldVals(f) } : D \in SUBSET Fields }

\* the value of one entry of the mapping: a record, or nothing ("foo:")
EntryVals == { DictVal(r) : r \in RawRecords } \cup {NoneVal}

\* records whose descriptor can be built, used for PluginManager sessions
SessionRecords ==
    { [package |-> StrVal(S_a_b_c), description |-> StrVal(S_descr)],
      [package |-> StrVal(S_a_b_c), import |-> StrVal(S_m),
       description |-> StrVal(S_descr)] }

(***************************************************************************)
(* The outcome of open(path) followed by yaml.safe_load(file):             *)
(*   missing    open raised FileNotFoundError                              *)
(*   yamlerror  safe_load raised yaml.YAMLError                            *)
(*   none       an empty document: safe_load returned None                 *)
(*   int        a scalar document such as "5"                              *)
(*   list       a top-level sequence of strings                            *)
(*   dict       a mapping, as the sequence of its (key, value) pairs in    *)
(*              iteration order; the keys are distinct                     *)
(***************************************************************************)
Doc(t, items) == [t |-> t, items |-> items]

DistinctKeys(items) ==
    \A i, j \in 1..Len(items) : i # j => items[i][1] # items[j][1]

SeqsUpTo(S, n) == UNION { [1..k -> S] : k \in 0..n }

Mappings(vals, n) ==
    { Doc("dict", items) : items \in { s \in SeqsUpTo(Names \X vals, n) : DistinctKeys(s) } }

\* the mappings of a PluginManager session: up to n plugins, named in the
\* order of SessionNames
SessionNames == <<"foo", "bar", "baz", "qux">>

SessionMappings(n) ==
    { Doc("dict", [i \in 1..Len(recs) |-> <<SessionNames[i], DictVal(recs[i])>>]) :
        recs \in SeqsUpTo(SessionRecords, n) }

OtherDocs ==
    { Doc("missing", <<>>), Doc("yamlerror", <<>>), Doc("none", <<>>), Doc("int", <<>>) }
    \cup { Doc("list", items) : items \in SeqsUpTo({StrVal(S_m)}, MaxItems) }

(***************************************************************************)
(* str methods.                                                            *)
(***************************************************************************)
\* a replace that stops after the first occurrence (count = 1)
Replace_first(s, old, new) ==
    [i \in 1..Len(s) |->
        IF s[i] = old /\ \A k \in 1..(i - 1) : s[k] # old THEN new ELSE s[i]]

\* str.replace(old, new) for one-character old and new: every occurrence
Replace(s, old, new) ==
    [i \in 1..Len(s) |-> IF s[i] = old THEN new ELSE s[i]]

\* str.startswith(c) for a one-character prefix
StartsWith(s, c) == Len(s) > 0 /\ s[1] = c

(***************************************************************************)
(* Outcomes of a call: a returned value or a raised exception.             *)
(***************************************************************************)
Return(v) == [kind |-> "return", value |-> v, exc |-> "", arg |-> ""]
Raise(e, a) == [kind |-> "raise", value |-> <<>>, exc |-> e, arg |-> a]

\* what the environment e holds under a module name
ModuleStatus(s, e) == IF s \in DOMAIN e THEN e[s] ELSE "absent"

\* importlib.import_module(name) in the environment e
ImportModule(name, e) ==
    IF name.t # "str" THEN Raise("AttributeError", "startswith")
    ELSE IF StartsWith(name.s, ".") THEN Raise("TypeError", "package")
    ELSE IF name.s = <<>> THEN Raise("ValueError", "Empty module name")
    ELSE IF ModuleStatus(name.s, e) = "ok" THEN Return(TRUE)
    ELSE IF ModuleStatus(name.s, e) = "broken"
         THEN Raise("SyntaxError", "invalid syntax")
    ELSE Raise("ImportError", "No module named")

\* a probe that catches every exception and answers False
IsPluginLoaded_catch_all(import_str, e) ==
    LET r == ImportModule(import_str, e)
    IN  IF r.kind = "return" THEN Return(TRUE) ELSE Return(FALSE)

\* PluginData._is_plugin_loaded: only ImportError is caught
IsPluginLoaded(import_str, e) ==
    LET r == ImportModule(import_str, e)
    IN  IF r.kind = "return" THEN Return(TRUE)
        ELSE IF r.exc = "ImportError" THEN Return(FALSE)
        ELSE r

\* the second argument of data.get("import", ...), evaluated before the call
DefaultImport(package) == StrVal(Replace(package.s, "-", "_"))

\* data.get("import", default)
ImportStr(d) ==
    IF "import" \in DOMAIN d THEN d["import"] ELSE DefaultImport(d["package"])

\* a constructor that reads description with data.get("description", "")
PluginDataInit_default(name, data, e) ==
    IF data.t # "dict" THEN Raise("TypeError", "not subscriptable")
    ELSE IF "package" \notin DOMAIN data.d THEN Raise("KeyError", "package")
    ELSE IF data.d["package"].t # "str" THEN Raise("AttributeError", "replace")
    ELSE LET loaded == IsPluginLoaded(ImportStr(data.d), e)
         IN  IF loaded.kind = "raise" THEN loaded
             ELSE Return([name |-> name,
                          package |-> data.d["package"],
                          import_str |-> ImportStr(data.d),
                          description |->
                              IF "description" \in DOMAIN data.d
                              THEN data.d["description"] ELSE StrVal(<<>>),
                          installed |-> loaded.value])

\* PluginData.__init__(name, data)
PluginDataInit(name, data, e) ==
    IF data.t # "dict" THEN Raise("TypeError", "not subscriptable")
    ELSE IF "package" \notin DOMAIN data.d THEN Raise("KeyError", "package")
    ELSE IF data.d["package"].t # "str" THEN Raise("AttributeError", "replace")
    ELSE IF "description" \notin DOMAIN data.d THEN Raise("KeyError", "description")
    ELSE LET loaded == IsPluginLoaded(ImportStr(data.d), e)
         IN  IF loaded.kind = "raise" THEN loaded
             ELSE Return([name |-> name,
                          package |-> data.d["package"],
                          import_str |-> ImportStr(data.d),
                          description |-> data.d["description"],
                          installed |-> loaded.value])

\* the loop of _get_plugin_list over a mapping, from entry i on
RECURSIVE AppendPlugins(_, _, _, _)
AppendPlugins(items, i, acc, e) ==
    IF i > Len(items) THEN Return(acc)
    ELSE LET p == PluginDataInit(items[i][1], items[i][2], e)
         IN  IF p.kind = "raise" THEN p
             ELSE AppendPlugins(items, i + 1, Append(acc, p.value), e)

\* PluginManager._get_plugin_list(path)
GetPluginList(doc, e) ==
    IF doc.t \in {"missing", "yamlerror"} THEN Return(<<>>)
    ELSE IF doc.t \in {"none", "int"} THEN Raise("TypeError", "not iterable")
    ELSE IF doc.t = "list"
         THEN IF doc.items = <<>> THEN Return(<<>>)
              ELSE Raise("TypeError", "list indices")
    ELSE AppendPlugins(doc.items, 1, <<>>, e)

(***************************************************************************)
(* utils.run_subprocess: the CompletedProcess of one pip command.  The     *)
(* command never raises on a non-zero exit (check=False).                  *)
(***************************************************************************)
ReturnCodes == {0, 1, 2}
Stdouts == {"Successfully installed"}
Stderrs == {"ERROR: no matching distribution"}
CompletedProcess == [returncode : ReturnCodes, stdout : Stdouts, stderr : Stderrs]

\* the environment after `pip install <package> --user`.  The exit code
\* does not tell what pip did to it: a failed command may already have
\* installed requirements or written files, and a successful one may have
\* replaced a requirement by a version without a module.  Any environment
\* can result.
PipInstallEnvs(e, res) == Envs

\* the environment after `pip uninstall <package> --user`: whatever the exit
\* code, a module that was there may be gone or left damaged; no module is
\* added
PipUninstallEnvs(e, res) ==
    { f \in Envs : \A m \in Modules : e[m] = "absent" => f[m] = "absent" }

NoneRet == [t |-> "none", s |-> ""]
TextRet(s) == [t |-> "str", s |-> s]

\* an install without the assignment on the failure path
install_keeps_flag(p, res) ==
    IF res.returncode = 0
    THEN [plugin |-> [p EXCEPT !.installed = TRUE], ret |-> TextRet(res.stdout)]
    ELSE [plugin |-> p, ret |-> TextRet(res.stderr)]

\* PluginData.install: the descriptor afterwards and the returned text
install(p, res) ==
    IF res.returncode = 0
    THEN [plugin |-> [p EXCEPT !.installed = TRUE], ret |-> TextRet(res.stdout)]
    ELSE [plugin |-> [p EXCEPT !.installed = FALSE], ret |-> TextRet(res.stderr)]

\* an uninstall without the else branch
uninstall_keeps_flag(p, res) ==
    IF res.returncode = 0
    THEN [plugin |-> [p EXCEPT !.installed = TRUE], ret |-> NoneRet]
    ELSE [plugin |-> p, ret |-> NoneRet]

\* PluginData.uninstall: the descriptor afterwards; the method returns None
uninstall(p, res) ==
    IF res.returncode = 0
    THEN [plugin |-> [p EXCEPT !.installed = TRUE], ret |-> NoneRet]
    ELSE [plugin |-> [p EXCEPT !.installed = FALSE], ret |-> NoneRet]

(***************************************************************************)
(* PluginBoxWidget.                                                        *)
(***************************************************************************)
\* the attributes a PluginBoxWidget instance has besides those of ipw.VBox
WidgetAttrs ==
    {"rendered", "plugin", "btns", "installed_label", "info",
     "install_report", "title", "install_btn", "remove_btn"}

RenderedChildren == <<"installed_label", "info", "btns", "install_report">>

Button(description, disabled) == [description |-> description, disabled |-> disabled]

\* PluginBoxWidget.__init__(plugin): nothing is displayed yet
PluginBoxWidget(plugin) ==
    [rendered |-> FALSE,
     installed_label |-> plugin.installed,
     btns |-> <<>>,
     children |-> <<>>,
     report_display |-> "default"]

\* PluginBoxWidget.render
render(w, plugin) ==
    IF ~w.rendered
    THEN [w EXCEPT !.report_display = "none",
                   !.rendered = TRUE,
                   !.btns = <<Button("Install", plugin.installed),
                              Button("Remove", ~plugin.installed)>>,
                   !.children = RenderedChildren]
    ELSE [w EXCEPT !.report_display = "none"]

\* PluginBoxWidget._update_buttons: the buttons are reached through children
update_buttons(w, plugin) ==
    IF \E c \in 1..Len(w.children) : w.children[c] = "btns"
    THEN [w EXCEPT !.btns =
            [b \in 1..Len(w.btns) |->
                IF w.btns[b].description = "Install"
                THEN [w.btns[b] EXCEPT !.disabled = plugin.installed]
                ELSE IF w.btns[b].description = "Remove"
                THEN [w.btns[b] EXCEPT !.disabled = ~plugin.installed]
                ELSE w.btns[b]]]
    ELSE w

\* PluginBoxWidget._install_plugin: self.text is read right after
\* plugin.install(); the widget has no such attribute
install_plugin(w, p, res) ==
    LET r == install(p, res)
    IN  IF "text" \notin WidgetAttrs
        THEN [plugin |-> r.plugin, widget |-> w, raised |-> "AttributeError"]
        ELSE [plugin |-> r.plugin,
              widget |-> update_buttons(
                  [w EXCEPT !.installed_label = r.plugin.installed], r.plugin),
              raised |-> ""]

\* PluginBoxWidget._remove_plugin
remove_plugin(w, p, res) ==
    LET r == uninstall(p, res)
    IN  [plugin |-> r.plugin,
         widget |-> update_buttons(
             [w EXCEPT !.installed_label = r.plugin.installed], r.plugin),
         raised |-> ""]

\* the button of a widget with the given description is there and enabled
Clickable(w, description) ==
    \E b \in 1..Len(w.btns) :
        w.btns[b].description = description /\ ~w.btns[b].disabled

(***************************************************************************)
(* State.                                                                  *)
(*   config   the outcome of reading the configuration file                *)
(*   env      what importing each module does; pip changes it              *)
(*   pc       "start", then "listed" (_get_plugin_list called alone),      *)
(*            "ready" (PluginManager built) or "raised"                    *)
(*   result   the outcome of _get_plugin_list                              *)
(*   plugins  PluginManager.plugins                                        *)
(*   widgets  PluginManagerView.plugin_widgets, one per plugin             *)
(*   last     the most recent install/uninstall call: who made it, on      *)
(*            which plugin, the subprocess result, the installed flag      *)
(*            before it, what the method returned and what the caller      *)
(*            raised                                                       *)
(***************************************************************************)
NoCall ==
    [op |-> "none", idx |-> 0,
     res |-> [returncode |-> 0, stdout |-> "", stderr |-> ""],
     prior |-> FALSE, ret |-> NoneRet, raised |-> ""]

Call(op, i, res, prior, ret, raised) ==
    [op |-> op, idx |-> i, res |-> res, prior |-> prior, ret |-> ret,
     raised |-> raised]

NoResult == [kind |-> "none", value |-> <<>>, exc |-> "", arg |-> ""]

InitCommon ==
    /\ pc = "start"
    /\ result = NoResult
    /\ plugins = <<>>
    /\ widgets = <<>>
    /\ last = NoCall

\* a PluginManager session
Init ==
    /\ config \in OtherDocs \cup SessionMappings(MaxPlugins)
    /\ env = [m \in Modules |-> IF m = S_m THEN "ok" ELSE "absent"]
    /\ InitCommon

\* any configuration file in any environment
InitLoad ==
    /\ config \in OtherDocs \cup Mappings(EntryVals, MaxEntries)
    /\ env \in Envs
    /\ InitCommon

\* PluginManager._get_plugin_list(path) called on its own
GetPluginListCall ==
    /\ pc = "start"
    /\ result' = GetPluginList(config, env)
    /\ pc' = IF result'.kind = "return" THEN "listed" ELSE "raised"
    /\ UNCHANGED <<config, env, plugins, widgets, last>>

\* PluginManager.__init__: the list, then one PluginBoxWidget per plugin
PluginManagerInit ==
    /\ pc = "start"
    /\ result' = GetPluginList(config, env)
    /\ IF result'.kind = "return"
       THEN /\ plugins' = result'.value
            /\ widgets' = [i \in 1..Len(result'.value) |->
                              PluginBoxWidget(result'.value[i])]
            /\ pc' = "ready"
       ELSE /\ pc' = "raised"
            /\ UNCHANGED <<plugins, widgets>>
    /\ UNCHANGED <<config, env, last>>

\* an install that writes the flag to the class, so to every descriptor
Install_shared(i) ==
    /\ pc = "ready"
    /\ \E res \in CompletedProcess :
         LET r == install(plugins[i], res)
         IN  /\ plugins' = [j \in 1..Len(plugins) |->
                              [plugins[j] EXCEPT !.installed = r.plugin.installed]]
             /\ last' = Call("install", i, res, plugins[i].installed, r.ret, "")
             /\ env' \in PipInstallEnvs(env, res)
    /\ UNCHANGED <<config, pc, result, widgets>>

\* plugins[i].install() called by the owner of the PluginManager
Install(i) ==
    /\ pc = "ready"
    /\ \E res \in CompletedProcess :
         LET r == install(plugins[i], res)
         IN  /\ plugins' = [plugins EXCEPT ![i] = r.plugin]
             /\ last' = Call("install", i, res, plugins[i].installed, r.ret, "")
             /\ env' \in PipInstallEnvs(env, res)
    /\ UNCHANGED <<config, pc, result, widgets>>

\* plugins[i].uninstall() called by the owner of the PluginManager
Uninstall(i) ==
    /\ pc = "ready"
    /\ \E res \in CompletedProcess :
         LET r == uninstall(plugins[i], res)
         IN  /\ plugins' = [plugins EXCEPT ![i] = r.plugin]
             /\ last' = Call("uninstall", i, res, plugins[i].installed, r.ret, "")
             /\ env' \in PipUninstallEnvs(env, res)
    /\ UNCHANGED <<config, pc, result, widgets>>

\* PluginManagerView._on_accordion_change with selected_index i
Render(i) ==
    /\ pc = "ready"
    /\ widgets' = [widgets EXCEPT ![i] = render(widgets[i], plugins[i])]
    /\ UNCHANGED <<config, env, pc, result, plugins, last>>

\* a click on the Install button of widget i
ClickInstall(i) ==
    /\ pc = "ready"
    /\ Clickable(widgets[i], "Install")
    /\ \E res \in CompletedProcess :
         LET h == install_plugin(widgets[i], plugins[i], res)
         IN  /\ plugins' = [plugins EXCEPT ![i] = h.plugin]
             /\ widgets' = [widgets EXCEPT ![i] = h.widget]
             /\ last' = Call("_install_plugin", i, res, plugins[i].installed,
                             install(plugins[i], res).ret, h.raised)
             /\ env' \in PipInstallEnvs(env, res)
    /\ UNCHANGED <<config, pc, result>>

\* a click on the Remove button of widget i
ClickRemove(i) ==
    /\ pc = "ready"
    /\ Clickable(widgets[i], "Remove")
    /\ \E res \in CompletedProcess :
         LET h == remove_plugin(widgets[i], plugins[i], res)
         IN  /\ plugins' = [plugins EXCEPT ![i] = h.plugin]
             /\ widgets' = [widgets EXCEPT ![i] = h.widget]
             /\ last' = Call("_remove_plugin", i, res, plugins[i].installed,
                             uninstall(plugins[i], res).ret, h.raised)
             /\ env' \in PipUninstallEnvs(env, res)
    /\ UNCHANGED <<config, pc, result>>

\* the registry and the lifecycle calls on its descriptors
Next ==
    \/ PluginManagerInit
    \/ \E i \in 1..Len(plugins) : Install(i)
    \/ \E i \in 1..Len(plugins) : Uninstall(i)

Spec == Init /\ [][Next]_vars

\* the same with the widgets in use: rendering and button clicks
NextWidget ==
    \/ PluginManagerInit
    \/ \E i \in 1..Len(plugins) : Install(i)
    \/ \E i \in 1..Len(plugins) : Uninstall(i)
    \/ \E i \in 1..Len(plugins) : Render(i)
    \/ \E i \in 1..Len(plugins) : ClickInstall(i)
    \/ \E i \in 1..Len(plugins) : ClickRemove(i)

SpecWidget == Init /\ [][NextWidget]_vars

NextLoad == GetPluginListCall

SpecLoad == InitLoad /\ [][NextLoad]_vars

(***************************************************************************)
(* Properties of _get_plugin_list and PluginData.__init__ (SpecLoad).      *)
(***************************************************************************)
Called == pc # "start"

IsRecord(v) == v.t = "dict"

LacksRequired(v) ==
    IsRecord(v) /\ ~({"package", "description"} \subseteq DOMAIN v.d)

\* the file is missing or its content is not a mapping of name to record
Malformed(doc) ==
    \/ doc.t \in {"missing", "yamlerror", "none", "int", "list"}
    \/ doc.t = "dict" /\ \E i \in 1..Len(doc.items) : ~IsRecord(doc.items[i][2])

\* each entry is a record with package and description
ValidMapping(doc) ==
    /\ doc.t = "dict"
    /\ \A i \in 1..Len(doc.items) :
         /\ IsRecord(doc.items[i][2])
         /\ {"package", "description"} \subseteq DOMAIN doc.items[i][2].d

\* the returned list has one descriptor per entry, in the mapping's order
ListsEveryEntry ==
    /\ result.kind = "return"
    /\ Len(result.value) = Len(config.items)
    /\ \A i \in 1..Len(config.items) : result.value[i].name = config.items[i][1]

\* C1: for a missing or malformed configuration file _get_plugin_list
\* returns an empty list and never raises
C1_EmptyListOnBadFile ==
    (Called /\ Malformed(config)) => result = Return(<<>>)

\* C4: for every mapping whose entries all have package and
\* description the list has one descriptor per entry, in the mapping's order
C4_ListsEveryEntryOfValidMapping ==
    (Called /\ ValidMapping(config)) => ListsEveryEntry

\* C5: the probe target of a descriptor is the import field when the record
\* has one, and otherwise the package with each hyphen turned into an
\* underscore
C5_ProbeTarget ==
    pc = "listed" =>
        \A i \in 1..Len(result.value) :
            LET d == config.items[i][2].d
                target == result.value[i].import_str
            IN  IF "import" \in DOMAIN d
                THEN target = d["import"]
                ELSE /\ target.t = "str"
                     /\ Len(target.s) = Len(d["package"].s)
                     /\ \A k \in 1..Len(target.s) :
                          target.s[k] = IF d["package"].s[k] = "-" THEN "_"
                                        ELSE d["package"].s[k]

C5_Witness ==
    /\ pc = "listed"
    /\ Len(result.value) = 2
    /\ "import" \notin DOMAIN config.items[1][2].d
    /\ result.value[1].import_str = StrVal(S_a_b_c_us)
    /\ "import" \in DOMAIN config.items[2][2].d
    /\ result.value[2].import_str = StrVal(S_m)

\* C6: a record without package or without description makes the
\* constructor raise KeyError for the missing field, and a mapping that
\* holds such a record makes _get_plugin_list raise instead of returning
C6_MissingFieldRaises ==
    (Called /\ config.t = "dict") =>
        \A i \in 1..Len(config.items) :
            LacksRequired(config.items[i][2]) =>
                /\ PluginDataInit(config.items[i][1], config.items[i][2], env)
                     = Raise("KeyError",
                             IF "package" \notin DOMAIN config.items[i][2].d
                             THEN "package" ELSE "description")
                /\ result.kind = "raise"

C6_Witness ==
    /\ pc = "raised"
    /\ config.t = "dict"
    /\ Len(config.items) = 2
    /\ ~LacksRequired(config.items[1][2])
    /\ LacksRequired(config.items[2][2])
    /\ result = Raise("KeyError", "description")

\* C7: the probe target of every constructed descriptor is a non-empty
\* string
C7_ProbeTargetNonEmpty ==
    pc = "listed" =>
        \A i \in 1..Len(result.value) :
            /\ result.value[i].import_str.t = "str"
            /\ result.value[i].import_str.s # <<>>

C7_Witness ==
    /\ pc = "listed"
    /\ Len(result.value) = 2
    /\ config.items[1][2].d["package"] = StrVal(S_empty)
    /\ "import" \in DOMAIN config.items[1][2].d
    /\ "import" \notin DOMAIN config.items[2][2].d

(***************************************************************************)
(* Properties of install, uninstall and the widget (Spec).                 *)
(***************************************************************************)
InstallOps == {"install", "_install_plugin"}
UninstallOps == {"uninstall", "_remove_plugin"}

\* C2: install() ends with installed true and stdout returned when the exit
\* code is 0, and with installed false and stderr returned otherwise
C2_InstallOutcome ==
    last.op \in InstallOps =>
        IF last.res.returncode = 0
        THEN /\ plugins[last.idx].installed
             /\ last.ret = TextRet(last.res.stdout)
        ELSE /\ ~plugins[last.idx].installed
             /\ last.ret = TextRet(last.res.stderr)

C2_Witness ==
    /\ last.op = "install"
    /\ last.res.returncode # 0
    /\ last.prior
    /\ ~plugins[last.idx].installed
    /\ last.ret = TextRet(last.res.stderr)

\* C3: uninstall() with a non-zero exit code leaves installed false
C3_UninstallFailure ==
    (last.op \in UninstallOps /\ last.res.returncode # 0)
    => ~plugins[last.idx].installed

C3_Witness ==
    /\ last.op = "uninstall"
    /\ last.res.returncode # 0
    /\ last.prior
    /\ ~plugins[last.idx].installed

\* C8: once the registry is loaded a step keeps the list's length and each
\* descriptor's name, package, import_str and description, and the installed
\* flag of a descriptor changes only in a step that is an install or
\* uninstall call on that descriptor
C8_Frame ==
    [][pc = "ready" =>
        /\ Len(plugins') = Len(plugins)
        /\ \A j \in 1..Len(plugins) :
             /\ plugins'[j].name = plugins[j].name
             /\ plugins'[j].package = plugins[j].package
             /\ plugins'[j].import_str = plugins[j].import_str
             /\ plugins'[j].description = plugins[j].description
             /\ plugins'[j].installed # plugins[j].installed =>
                  /\ last'.op \in InstallOps \cup UninstallOps
                  /\ last'.idx = j
                  /\ last'.prior = plugins[j].installed]_vars

C8_Witness ==
    /\ pc = "ready"
    /\ Len(plugins) = 2
    /\ last.op \in InstallOps \cup UninstallOps
    /\ last.idx = 1
    /\ plugins[1].installed # last.prior
    /\ plugins[2].installed = plugins[1].installed

\* C9: uninstall() with exit code 0 leaves installed false
C9_UninstallSuccess ==
    (last.op \in UninstallOps /\ last.res.returncode = 0)
    => ~plugins[last.idx].installed

\* the Install button is disabled exactly when the plugin is installed, the
\* Remove button exactly when it is not, and the label shows the flag
Agrees(w, p) ==
    /\ w.installed_label = p.installed
    /\ \A b \in 1..Len(w.btns) :
         /\ w.btns[b].description = "Install" => w.btns[b].disabled = p.installed
         /\ w.btns[b].description = "Remove" => w.btns[b].disabled = ~p.installed

\* C10: a click on Install or Remove is handled without raising and leaves
\* the widget in agreement with its descriptor
C10_WidgetAgrees ==
    last.op \in {"_install_plugin", "_remove_plugin"} =>
        /\ last.raised = ""
        /\ Agrees(widgets[last.idx], plugins[last.idx])

====
